---- MODULE Spec2Model ----
(***************************************************************************)
(* A model of the tutorial scripts of smuotoe/tutorial-two.                *)
(*                                                                         *)
(*   SpecPerf  : the two performance scripts (03 pandas/polars and         *)
(*               05 polars/duckdb): create_large_dataset, the decorator    *)
(*               time_operation, the timed engine functions and the driver *)
(*               run_comparison.                                           *)
(*   SpecIntro : the two introduction scripts (02 polars and 04 duckdb):   *)
(*               the revenue-by-product and best-sales-day analyses and    *)
(*               the driver of script 04 with its two exception handlers.  *)
(*                                                                         *)
(* Money is counted in thousandths of a currency unit (mills), so that     *)
(* round(x, 2) is a real operation: it rounds mills to a multiple of ten.  *)
(* The engines compute in binary doubles; the integer model keeps what     *)
(* that leaves open as a choice: a sum that is exactly half a cent may be  *)
(* rounded to either neighbouring cent.                                    *)
(***************************************************************************)
EXTENDS Integers, Sequences, FiniteSets

VARIABLES
    script,           \* which script the process runs: 2, 3, 4 or 5
    pc,               \* position of the single thread of control
    err,              \* the exception that ended the run ("none" when none)
    out,              \* what was printed, in order
    cons,             \* the functions whose duckdb connection is still open
    opened,           \* how many times duckdb.connect() was called
    q,                \* how many con.execute(...) of the running script succeeded
    \* ---- scripts 03 and 05
    now,              \* the wall clock that time() reads
    start,            \* wrapper's local `start`, per call
    end,              \* wrapper's local `end`, per call
    cur,              \* which timed implementation run_comparison is at: "A" or "B"
    calls,            \* how often each wrapped function was entered
    ret,              \* wrapper's local `result`, per call ("none" before)
    funcErr,          \* the exception the wrapped function raised
    sample,           \* what wrapper returned: <<result, elapsed>>, <<>> before
    parquet,          \* sales_data.parquet exists in the working directory
    parquetRead,      \* the engines that have read sales_data.parquet
    \* ---- scripts 02 and 04
    csvExists,        \* data/sales_data.csv exists
    rows,             \* the records of data/sales_data.csv
    product_revenue,  \* local/returned product_revenue
    best_day,         \* local/returned best_day
    returned          \* duckdb_analysis handed its results to the driver

shared    == <<script, pc, err, out, cons, opened, q>>
perfVars  == <<now, start, end, cur, calls, ret, funcErr, sample, parquet, parquetRead>>
introVars == <<csvExists, rows, product_revenue, best_day, returned>>
vars      == <<shared, perfVars, introVars>>
shared_but_pc == <<script, err, out, cons, opened, q>>

\* ------------------------------------------------------------------ bounds
MaxClock == 3        \* the clock shows 0..MaxClock
MaxRows  == 2        \* enumerated csv files hold 1..MaxRows records
MaxQty   == 2        \* quantities of the enumerated records are 1..MaxQty

\* ------------------------------------------------------- scripts 03 and 05
Impls   == {"A", "B"}
Results == {"r1", "r2"}                  \* the dicts an engine function can return
EngineErrors == {"EngineError", "MemoryError"}   \* what an engine function can raise

\* The function run_comparison times first (A) and second (B).
ImplName(s, i) ==
    IF s = 3 THEN (IF i = "A" THEN "pandas_operations" ELSE "polars_operations")
             ELSE (IF i = "A" THEN "polars_operations" ELSE "duckdb_operations")

\* duckdb_operations runs five statements on its connection: the CREATE VIEW
\* and the four metric queries.
NumStatements == 5

InitPerf ==
    /\ script \in {3, 5}
    /\ pc = "create"
    /\ err = "none"
    /\ out = <<>>
    /\ cons = {}
    /\ opened = 0
    /\ q = 0
    /\ now \in 0..MaxClock
    /\ start = [i \in Impls |-> 0]
    /\ end = [i \in Impls |-> 0]
    /\ cur = "A"
    /\ calls = [i \in Impls |-> 0]
    /\ ret = [i \in Impls |-> "none"]
    /\ funcErr = "none"
    /\ sample = [i \in Impls |-> <<>>]
    /\ parquet = FALSE
    /\ parquetRead = {}
    /\ csvExists = FALSE
    /\ rows = <<>>
    /\ product_revenue = {}
    /\ best_day = {}
    /\ returned = FALSE

Running == pc \notin {"done", "failed"}

\* The wall clock advances while the process runs.
Tick ==
    /\ script \in {3, 5} /\ Running
    /\ now < MaxClock
    /\ now' = now + 1
    /\ UNCHANGED <<shared, introVars, start, end, cur, calls, ret, funcErr, sample,
                   parquet, parquetRead>>

\* time() is the system's wall clock: the system (NTP, an administrator) can
\* set it back while the process runs.
ClockSetBack ==
    /\ script \in {3, 5} /\ Running
    /\ \E t \in 0..MaxClock :
         /\ t < now
         /\ now' = t
    /\ UNCHANGED <<shared, introVars, start, end, cur, calls, ret, funcErr, sample,
                   parquet, parquetRead>>

\* create_large_dataset: script 03 returns the dict, script 05 also writes
\* sales_data.parquet.
CreateLargeDataset ==
    /\ script \in {3, 5} /\ pc = "create"
    /\ out' = Append(out, "Creating dataset")
    /\ parquet' = (script = 5)
    /\ pc' = "announce"
    /\ UNCHANGED <<script, err, cons, opened, q, introVars, now, start, end, cur,
                   calls, ret, funcErr, sample, parquetRead>>

\* run_comparison announces the implementation it is about to time.
Announce ==
    /\ script \in {3, 5} /\ pc = "announce"
    /\ out' = Append(out, "Running " \o cur)
    /\ pc' = "wrap_start"
    /\ UNCHANGED <<script, err, cons, opened, q, introVars, perfVars>>

\* wrapper: start = time().
WrapperStart ==
    /\ script \in {3, 5} /\ pc = "wrap_start"
    /\ start' = [start EXCEPT ![cur] = now]
    /\ pc' = IF ImplName(script, cur) = "duckdb_operations" THEN "duck_connect"
                                                            ELSE "call"
    /\ UNCHANGED <<shared_but_pc, introVars, now, end, cur, calls, ret, funcErr,
                   sample, parquet, parquetRead>>

\* pandas_operations / polars_operations, called by wrapper: the function
\* either returns its dict of results or raises.  In script 05
\* polars_operations first reads sales_data.parquet.
EngineCall ==
    /\ script \in {3, 5} /\ pc = "call"
    /\ calls' = [calls EXCEPT ![cur] = @ + 1]
    /\ IF script = 5 /\ ~parquet
       THEN /\ funcErr' = "FileNotFoundError"
            /\ pc' = "raised"
            /\ UNCHANGED <<ret, parquetRead>>
       ELSE /\ parquetRead' = IF script = 5
                              THEN parquetRead \cup {ImplName(script, cur)}
                              ELSE parquetRead
            /\ \/ \E r \in Results :
                    /\ ret' = [ret EXCEPT ![cur] = r]
                    /\ pc' = "wrap_end"
                    /\ UNCHANGED funcErr
               \/ \E e \in EngineErrors :
                    /\ funcErr' = e
                    /\ pc' = "raised"
                    /\ UNCHANGED ret
    /\ UNCHANGED <<shared_but_pc, introVars, now, start, end, cur, sample, parquet>>

\* duckdb_operations, called by wrapper: con = duckdb.connect().
DuckConnect ==
    /\ script = 5 /\ pc = "duck_connect"
    /\ calls' = [calls EXCEPT ![cur] = @ + 1]
    /\ cons' = cons \cup {"duckdb_operations"}
    /\ opened' = opened + 1
    /\ pc' = "duck_execute"
    /\ UNCHANGED <<script, err, out, q, introVars, now, start, end, cur, ret,
                   funcErr, sample, parquet, parquetRead>>

\* duckdb_operations: the next con.execute(...).  It raises, or it succeeds;
\* after the last one con.close() runs and the dict is returned.
DuckExecute ==
    /\ script = 5 /\ pc = "duck_execute"
    /\ parquetRead' = parquetRead \cup {"duckdb_operations"}
    /\ \/ /\ \E e \in EngineErrors : funcErr' = e
          /\ pc' = "raised"
          /\ UNCHANGED <<q, cons, ret>>
       \/ /\ parquet
          /\ q + 1 < NumStatements
          /\ q' = q + 1
          /\ UNCHANGED <<pc, cons, ret, funcErr>>
       \/ /\ parquet
          /\ q + 1 = NumStatements
          /\ q' = q + 1
          /\ cons' = cons \ {"duckdb_operations"}
          /\ \E r \in Results : ret' = [ret EXCEPT ![cur] = r]
          /\ pc' = "wrap_end"
          /\ UNCHANGED funcErr
    /\ UNCHANGED <<script, err, out, opened, introVars, now, start, end, cur, calls,
                   sample, parquet>>

\* A wrapper that calls func again when it raised.
WrapperRetry ==
    /\ script \in {3, 5} /\ pc = "raised"
    /\ pc' = IF ImplName(script, cur) = "duckdb_operations" THEN "duck_connect"
                                                            ELSE "call"
    /\ UNCHANGED <<shared_but_pc, introVars, perfVars>>

\* A wrapper that catches what func raised and returns (None, elapsed).
WrapperSwallow ==
    /\ script \in {3, 5} /\ pc = "raised"
    /\ end' = [end EXCEPT ![cur] = now]
    /\ sample' = [sample EXCEPT ![cur] = <<"none", now - start[cur]>>]
    /\ IF cur = "A" THEN /\ cur' = "B"
                         /\ pc' = "announce"
                    ELSE /\ pc' = "print"
                         /\ UNCHANGED cur
    /\ UNCHANGED <<shared_but_pc, introVars, now, start, calls, ret, funcErr,
                   parquet, parquetRead>>

\* wrapper has no try: what func raises leaves wrapper, then run_comparison,
\* then the module, which has no handler either.
WrapperPropagate ==
    /\ script \in {3, 5} /\ pc = "raised"
    /\ err' = funcErr
    /\ pc' = "failed"
    /\ UNCHANGED <<script, out, cons, opened, q, introVars, perfVars>>

\* wrapper: end = time(); return result, end - start.  run_comparison
\* unpacks the pair and goes on to the next implementation or to the table.
WrapperEnd ==
    /\ script \in {3, 5} /\ pc = "wrap_end"
    /\ end' = [end EXCEPT ![cur] = now]
    /\ sample' = [sample EXCEPT ![cur] = <<ret[cur], now - start[cur]>>]
    /\ IF cur = "A" THEN /\ cur' = "B"
                         /\ pc' = "announce"
                    ELSE /\ pc' = "print"
                         /\ UNCHANGED cur
    /\ UNCHANGED <<shared_but_pc, introVars, now, start, calls, ret, funcErr,
                   parquet, parquetRead>>

\* The lines run_comparison prints after both implementations returned.
\* Script 05 first prints the head of both store_metrics tables.
SampleLines(s) == IF s = 5 THEN <<"sample A", "sample B">> ELSE <<>>
TableLines == <<"Performance Results", "header", "rule", "time A", "time B">>

\* run_comparison prints the table.  The last line formats
\* time_A / time_B, which raises ZeroDivisionError for a divisor of 0.0.
PrintResults ==
    /\ script \in {3, 5} /\ pc = "print"
    /\ IF sample["B"][2] = 0
       THEN /\ out' = out \o SampleLines(script) \o TableLines
            /\ err' = "ZeroDivisionError"
            /\ pc' = "failed"
       ELSE /\ out' = out \o SampleLines(script) \o TableLines \o <<"ratio">>
            /\ err' = err
            /\ pc' = IF script = 5 THEN "cleanup" ELSE "done"
    /\ UNCHANGED <<script, cons, opened, q, introVars, perfVars>>

\* Script 05, the end of run_comparison: remove sales_data.parquet if it exists.
Cleanup ==
    /\ script = 5 /\ pc = "cleanup"
    /\ parquet' = FALSE
    /\ pc' = "done"
    /\ UNCHANGED <<shared_but_pc, introVars, now, start, end, cur, calls, ret,
                   funcErr, sample, parquetRead>>

NextPerf ==
    \/ Tick
    \/ ClockSetBack
    \/ CreateLargeDataset
    \/ Announce
    \/ WrapperStart
    \/ EngineCall
    \/ DuckConnect
    \/ DuckExecute
    \/ WrapperPropagate
    \/ WrapperEnd
    \/ PrintResults
    \/ Cleanup

SpecPerf == InitPerf /\ [][NextPerf]_vars

\* ------------------------------------------------------- scripts 02 and 04
Dates    == {"2023-01-01", "2023-01-02"}
Products == {"A", "B"}
\* Unit prices in mills: 1.004, 1.005 and 1.006.  Sums with an odd number of
\* units at 1.005 are exactly half a cent.
Prices   == {1004, 1005, 1006}

Row == [date : Dates, product : Products, quantity : 1..MaxQty, price : Prices]

\* The three-record table of the end-to-end scenario (prices 10.00 and 5.00).
ExampleRows ==
    << [date |-> "2023-01-01", product |-> "A", quantity |-> 2, price |-> 10000],
       [date |-> "2023-01-01", product |-> "B", quantity |-> 1, price |-> 5000],
       [date |-> "2023-01-02", product |-> "A", quantity |-> 3, price |-> 10000] >>

Datasets == UNION {[1..n -> Row] : n \in 1..MaxRows} \cup {ExampleRows}

Range(s) == {s[i] : i \in DOMAIN s}

RECURSIVE SumSeq(_)
SumSeq(s) == IF s = <<>> THEN 0 ELSE Head(s) + SumSeq(Tail(s))

\* round(x, 2) of a non-negative amount of x mills held as a double: the
\* values it can give.  Off the half cent it is the nearest cent.  For a sum
\* of exactly half a cent the result depends on the double nearest to the
\* decimal value (1.005 is stored below the half, 0.125 exactly on it) and,
\* on the half, on the tie rule of the engine (half away from zero, or half
\* to even): either neighbouring cent.
Round2(x) ==
    IF x % 10 = 5 THEN {x - 5, x + 5}
                  ELSE {((x + 5) \div 10) * 10}

\* The frames with one row per key k of the domain of opt, whose value is
\* one of opt[k].
Frames(keycol, valcol, opt) ==
    LET K == DOMAIN opt
    IN  {{[c \in {keycol, valcol} |-> IF c = keycol THEN k ELSE f[k]] : k \in K}
            : f \in {g \in [K -> UNION {opt[k] : k \in K}] :
                        \A k \in K : g[k] \in opt[k]}}

\* df.with_columns((quantity * price).alias('revenue'))
WithRevenue(df) ==
    [i \in DOMAIN df |->
        [date |-> df[i].date, product |-> df[i].product,
         quantity |-> df[i].quantity, price |-> df[i].price,
         revenue |-> df[i].quantity * df[i].price]]

\* The rows of one group of group_by(key), and the sum of a column of a frame.
Group(df, key, k) == SelectSeq(df, LAMBDA r : r[key] = k)
Keys(df, key) == {df[i][key] : i \in DOMAIN df}
ColSum(df, col) == SumSeq([i \in DOMAIN df |-> df[i][col]])
\* ---- script 02, polars_analysis

\* The sums of one choice of element from each set of the sequence ss.
RECURSIVE SumChoices(_)
SumChoices(ss) ==
    IF ss = <<>> THEN {0}
    ELSE {a + b : a \in Head(ss), b \in SumChoices(Tail(ss))}

\* A product revenue that rounds every row's revenue before summing.
PolarsProductRevenueRoundRows(df) ==
    LET d == WithRevenue(df)
        RowsRounded(p) ==
            LET g == Group(d, "product", p)
            IN  SumChoices([i \in DOMAIN g |-> Round2(g[i].revenue)])
    IN  Frames("product", "total_revenue",
               [p \in Keys(d, "product") |-> RowsRounded(p)])

\* with_columns(revenue).group_by('product').agg(revenue.sum().round(2)):
\* a frame whose row order is not defined, so a set of rows; the frames the
\* expression can give.
PolarsProductRevenue(df) ==
    LET d == WithRevenue(df)
    IN  Frames("product", "total_revenue",
               [p \in Keys(d, "product") |->
                   Round2(ColSum(Group(d, "product", p), "revenue"))])

\* with_columns(revenue).group_by('date').agg(revenue.sum()): not rounded.
PolarsDailySales(df) ==
    LET d == WithRevenue(df)
    IN  {[date |-> k,
          daily_revenue |-> ColSum(Group(d, "date", k), "revenue")]
            : k \in Keys(d, "date")}

\* .sort('daily_revenue', descending=True).head(1): one row.  group_by does
\* not define the order of the groups, so among equal revenues any row can
\* come first: the rows head(1) can be.
PolarsBestDay(df) ==
    {r \in PolarsDailySales(df) :
        \A o \in PolarsDailySales(df) : o.daily_revenue <= r.daily_revenue}

\* ---- script 04, the two queries of duckdb_analysis

\* SUM(quantity * price) over the rows of one group.
SqlSumRevenue(t, key, k) ==
    LET g == Group(t, key, k)
    IN  SumSeq([i \in DOMAIN g |-> g[i].quantity * g[i].price])

\* The orders ORDER BY col DESC can give the rows S.
OrderedDesc(S, col) ==
    {s \in [1..Cardinality(S) -> S] :
        /\ Range(s) = S
        /\ \A i, j \in DOMAIN s : i < j => s[i][col] >= s[j][col]}

\* SELECT product, ROUND(SUM(quantity * price), 2) AS total_revenue
\* FROM sales GROUP BY product ORDER BY total_revenue DESC: the tables the
\* query can give.
DuckProductRevenue(t) ==
    UNION {OrderedDesc(S, "total_revenue")
             : S \in Frames("product", "total_revenue",
                            [p \in Keys(t, "product") |->
                                Round2(SqlSumRevenue(t, "product", p))])}

\* daily_sales AS (SELECT date, ROUND(SUM(quantity * price), 2) AS
\* daily_revenue FROM sales GROUP BY date): the tables it can be.
DuckDailySales(t) ==
    Frames("date", "daily_revenue",
           [k \in Keys(t, "date") |-> Round2(SqlSumRevenue(t, "date", k))])

\* SELECT * FROM daily_sales
\* WHERE daily_revenue = (SELECT MAX(daily_revenue) FROM daily_sales):
\* the results the query can give.
DuckBestDay(t) ==
    {{r \in S : \A o \in S : o.daily_revenue <= r.daily_revenue}
        : S \in DuckDailySales(t)}

\* The names duckdb_analysis has assigned when it reaches its return
\* statement, the names the module has assigned by then, and the names the
\* return statement reads.
AnalysisLocals == {"con", "data_dir", "product_revenue", "best_day"}
ModuleGlobals  == {"duckdb", "Path", "duckdb_analysis", "verify_data_file"}
ReturnNames    == {"product_revenue", "best_day", "weekly_avg"}

\* A driver whose `except Exception` clause comes first and so catches all.
HandlerGenericFirst(e) == <<"An error occurred: " \o e>>

\* The except clauses of the driver of script 04, in their order: what the
\* handler that catches exception e prints.
Handler(e) ==
    IF e = "FileNotFoundError"
    THEN <<"Error: Data file not found at data/sales_data.csv",
           "Please ensure the sales data file exists in the data directory.">>
    ELSE <<"An error occurred: " \o e>>

InitIntro ==
    /\ script \in {2, 4}
    /\ pc = "main"
    /\ err = "none"
    /\ out = <<>>
    /\ cons = {}
    /\ opened = 0
    /\ q = 0
    /\ now = 0
    /\ start = [i \in Impls |-> 0]
    /\ end = [i \in Impls |-> 0]
    /\ cur = "A"
    /\ calls = [i \in Impls |-> 0]
    /\ ret = [i \in Impls |-> "none"]
    /\ funcErr = "none"
    /\ sample = [i \in Impls |-> <<>>]
    /\ parquet = FALSE
    /\ parquetRead = {}
    /\ csvExists \in BOOLEAN
    /\ rows \in (IF csvExists THEN Datasets ELSE {<<>>})
    /\ product_revenue = (IF script = 2 THEN {} ELSE <<>>)
    /\ best_day = {}
    /\ returned = FALSE

\* Script 02, the driver up to the call of polars_analysis: it creates the
\* data directory and calls pandas_analysis, which is `pass`.
PandasAnalysis ==
    /\ script = 2 /\ pc = "main"
    /\ out' = out \o <<"Pandas Analysis:", "Polars Analysis:">>
    /\ pc' = "pl_read"
    /\ UNCHANGED <<script, err, cons, opened, q, perfVars, introVars>>

\* polars_analysis: pl.read_csv; script 02 catches nothing.
PolarsReadCsv ==
    /\ script = 2 /\ pc = "pl_read"
    /\ IF csvExists THEN /\ pc' = "pl_product"
                         /\ UNCHANGED err
                    ELSE /\ pc' = "failed"
                         /\ err' = "FileNotFoundError"
    /\ UNCHANGED <<script, out, cons, opened, q, perfVars, introVars>>

\* polars_analysis, step 2: total revenue per product.
PolarsProduct ==
    /\ script = 2 /\ pc = "pl_product"
    /\ \E f \in PolarsProductRevenue(rows) : product_revenue' = f
    /\ out' = out \o <<"Total Revenue by Product:", "product_revenue">>
    /\ pc' = "pl_best"
    /\ UNCHANGED <<script, err, cons, opened, q, perfVars, csvExists, rows,
                   best_day, returned>>

\* polars_analysis, step 3: the day with the highest sales.
PolarsBest ==
    /\ script = 2 /\ pc = "pl_best"
    /\ \E r \in PolarsBestDay(rows) : best_day' = {r}
    /\ out' = Append(out, "Best Sales Day")
    /\ pc' = "done"
    /\ UNCHANGED <<script, err, cons, opened, q, perfVars, csvExists, rows,
                   product_revenue, returned>>

\* Script 04, verify_data_file up to its query: the existence test, then
\* duckdb.connect().
VerifyDataFile ==
    /\ script = 4 /\ pc = "main"
    /\ IF ~csvExists
       THEN /\ err' = "FileNotFoundError"
            /\ pc' = "except"
            /\ UNCHANGED <<out, cons, opened>>
       ELSE /\ cons' = cons \cup {"verify_data_file"}
            /\ opened' = opened + 1
            /\ out' = Append(out, "First 5 rows of data:")
            /\ pc' = "verify_query"
            /\ UNCHANGED err
    /\ UNCHANGED <<script, q, perfVars, introVars>>

\* verify_data_file: the sample query.  When it succeeds the sample is
\* printed, the connection is closed and the driver announces the analysis.
VerifyQuery ==
    /\ script = 4 /\ pc = "verify_query"
    /\ \/ /\ q' = q + 1
          /\ cons' = cons \ {"verify_data_file"}
          /\ out' = out \o <<"sample", "Running analysis...">>
          /\ pc' = "an_connect"
          /\ UNCHANGED err
       \/ /\ err' = "duckdb.Error"
          /\ pc' = "except"
          /\ UNCHANGED <<q, cons, out>>
    /\ UNCHANGED <<script, opened, perfVars, introVars>>

\* duckdb_analysis: con = duckdb.connect().
AnalysisConnect ==
    /\ script = 4 /\ pc = "an_connect"
    /\ cons' = cons \cup {"duckdb_analysis"}
    /\ opened' = opened + 1
    /\ out' = Append(out, "Total Revenue by Product:")
    /\ pc' = "an_product"
    /\ UNCHANGED <<script, err, q, perfVars, introVars>>

\* duckdb_analysis, query 1.
AnalysisProduct ==
    /\ script = 4 /\ pc = "an_product"
    /\ \/ /\ \E s \in DuckProductRevenue(rows) : product_revenue' = s
          /\ q' = q + 1
          /\ out' = out \o <<"product_revenue", "Best Sales Day:">>
          /\ pc' = "an_best"
          /\ UNCHANGED err
       \/ /\ err' = "duckdb.Error"
          /\ pc' = "except"
          /\ UNCHANGED <<q, out, product_revenue>>
    /\ UNCHANGED <<script, cons, opened, perfVars, csvExists, rows, best_day,
                   returned>>

\* duckdb_analysis, query 2, and con.close() after it.
AnalysisBest ==
    /\ script = 4 /\ pc = "an_best"
    /\ \/ /\ \E b \in DuckBestDay(rows) : best_day' = b
          /\ q' = q + 1
          /\ out' = Append(out, "best_day")
          /\ cons' = cons \ {"duckdb_analysis"}
          /\ pc' = "an_return"
          /\ UNCHANGED err
       \/ /\ err' = "duckdb.Error"
          /\ pc' = "except"
          /\ UNCHANGED <<q, out, cons, best_day>>
    /\ UNCHANGED <<script, opened, perfVars, csvExists, rows, product_revenue,
                   returned>>

\* duckdb_analysis: return product_revenue, best_day, weekly_avg.  Reading a
\* name that is neither a local nor a global raises NameError.
AnalysisReturn ==
    /\ script = 4 /\ pc = "an_return"
    /\ IF ReturnNames \subseteq AnalysisLocals \cup ModuleGlobals
       THEN /\ returned' = TRUE
            /\ pc' = "done"
            /\ UNCHANGED err
       ELSE /\ err' = "NameError"
            /\ pc' = "except"
            /\ UNCHANGED returned
    /\ UNCHANGED <<script, out, cons, opened, q, perfVars, csvExists, rows,
                   product_revenue, best_day>>

\* The driver's except clauses: the exception is caught and reported, and
\* the script ends.
HandleException ==
    /\ script = 4 /\ pc = "except"
    /\ out' = out \o Handler(err)
    /\ pc' = "done"
    /\ UNCHANGED <<script, err, cons, opened, q, perfVars, introVars>>

NextIntro ==
    \/ PandasAnalysis
    \/ PolarsReadCsv
    \/ PolarsProduct
    \/ PolarsBest
    \/ VerifyDataFile
    \/ VerifyQuery
    \/ AnalysisConnect
    \/ AnalysisProduct
    \/ AnalysisBest
    \/ AnalysisReturn
    \/ HandleException

SpecIntro == InitIntro /\ [][NextIntro]_vars

\* ================================================================ claims

Abs(x) == IF x < 0 THEN -x ELSE x
Printed(line) == \E i \in DOMAIN out : out[i] = line

\* ---- C1
\* C1: in every call of a wrapped function the computation is entered
\* exactly once, whether it returns or raises, and never again; when it
\* returns, wrapper returns the pair of exactly the returned value and
\* end - start.
C1_CalledOnceResultUnchanged ==
    \A i \in Impls :
        /\ calls[i] <= 1
        /\ sample[i] # <<>> =>
              /\ calls[i] = 1
              /\ ret[i] \in Results
              /\ sample[i] = <<ret[i], end[i] - start[i]>>
        /\ (i = cur /\ pc \in {"raised", "wrap_end"}) => calls[i] = 1
        /\ (i = cur /\ pc = "failed" /\ funcErr # "none") => calls[i] = 1

C1_Witness ==
    /\ script = 5 /\ pc = "done"
    /\ calls = [i \in Impls |-> 1]
    /\ sample["A"][1] = "r1" /\ sample["B"][1] = "r2"
    /\ sample["B"][2] = 2

\* ---- C2
\* C2: when the wrapped computation raises, the error that reaches the
\* caller is the one it raised, the call yields no (result, elapsed) pair and
\* the run does not go on.
C2_ErrorPropagatesUnchanged ==
    funcErr # "none" =>
        /\ pc \in {"raised", "failed"}
        /\ sample[cur] = <<>>
        /\ pc = "failed" => err = funcErr

C2_Witness ==
    /\ script = 3 /\ pc = "failed" /\ cur = "B"
    /\ funcErr = "MemoryError" /\ err = "MemoryError"
    /\ sample["A"] # <<>> /\ sample["B"] = <<>>

\* ---- C3
\* C3: the elapsed time wrapper returns is never negative, whatever the
\* clock does.
C3_ElapsedNonNegative ==
    \A i \in Impls : sample[i] # <<>> => sample[i][2] >= 0

\* ---- C4
\* C4: no function has returned or raised while a connection it opened is
\* still open.
C4_ConnectionsClosedOnExit ==
    /\ pc \in {"an_connect", "an_product", "an_best", "an_return", "except",
               "done", "failed"} => "verify_data_file" \notin cons
    /\ pc \in {"except", "done", "failed"} => "duckdb_analysis" \notin cons
    /\ pc \in {"raised", "wrap_end", "print", "cleanup", "done", "failed"}
          => "duckdb_operations" \notin cons

\* ---- C5
\* C5: with data/sales_data.csv missing, script 04 reports the condition
\* through the FileNotFoundError handler and ends: nothing else is printed,
\* no connection is opened, no query runs, no error leaves the try block.
C5_MissingFileReported ==
    (script = 4 /\ ~csvExists) =>
        /\ opened = 0 /\ q = 0 /\ cons = {}
        /\ ~returned
        /\ pc \in {"main", "except", "done"}
        /\ pc # "main" => err = "FileNotFoundError"
        /\ pc # "done" => ENABLED NextIntro
        /\ pc = "done" =>
              out = <<"Error: Data file not found at data/sales_data.csv",
                      "Please ensure the sales data file exists in the data directory.">>

C5_Witness ==
    /\ script = 4 /\ ~csvExists /\ pc = "done"
    /\ err = "FileNotFoundError"
    /\ Len(out) = 2

\* ---- C6
\* The revenue of date d: the sum of quantity * price over its rows.
DailyRevenue(t, d) ==
    LET f[n \in 0..Len(t)] ==
            IF n = 0 THEN 0
            ELSE f[n - 1] + (IF t[n].date = d THEN t[n].quantity * t[n].price ELSE 0)
    IN  f[Len(t)]

BestDates(t) ==
    {d \in Range([i \in DOMAIN t |-> t[i].date]) :
        \A o \in Range([i \in DOMAIN t |-> t[i].date]) :
            DailyRevenue(t, o) <= DailyRevenue(t, d)}

\* C6: the best-sales-day result of either engine holds exactly the dates
\* whose daily revenue is the maximum daily revenue, all of them when
\* several tie.
C6_BestDayIsAllMaxima ==
    /\ (script = 2 /\ pc = "done")
          => {r.date : r \in best_day} = BestDates(rows)
    /\ (script = 4 /\ q >= 3)
          => {r.date : r \in best_day} = BestDates(rows)

\* ---- C7
\* C7: in script 05 sales_data.parquet exists from create_large_dataset on,
\* is there when an engine reads it, stays until both engines have finished
\* and is gone when run_comparison has ended, however it ended.
C7_ParquetRemovedOnEveryExit ==
    script = 5 =>
        /\ parquetRead # {} => calls["A"] = 1
        /\ pc \in {"announce", "wrap_start", "call", "duck_connect",
                   "duck_execute", "wrap_end", "print"} => parquet
        /\ pc \in {"done", "failed"} => ~parquet

\* ---- C8
\* The sum of quantity * price over the rows of product p.
ProductRevenueSum(t, p) ==
    LET f[n \in 0..Len(t)] ==
            IF n = 0 THEN 0
            ELSE f[n - 1] + (IF t[n].product = p THEN t[n].quantity * t[n].price ELSE 0)
    IN  f[Len(t)]

ProductsOf(t) == Range([i \in DOMAIN t |-> t[i].product])

\* The sum rounded to two decimals, halves up.
ProductTotals(t) ==
    {[product |-> p,
      total_revenue |-> 10 * ((ProductRevenueSum(t, p) + 5) \div 10)]
        : p \in ProductsOf(t)}

\* The totals per product an engine computed, as a set of rows.
ComputedTotals ==
    IF script = 2 THEN product_revenue ELSE Range(product_revenue)

TotalsComputed ==
    \/ script = 2 /\ pc \in {"pl_best", "done"}
    \/ script = 4 /\ q >= 2

\* The totals the other engine can give on the same table.
OtherEngineTotals ==
    IF script = 2 THEN {Range(s) : s \in DuckProductRevenue(rows)}
                  ELSE PolarsProductRevenue(rows)

\* C8 as stated: the totals per product of the Polars code and of the DuckDB
\* query are both the sum of quantity * price of the product's rows rounded
\* to two decimals, hence the same pairs whatever the table.
C8_ProductTotalsEqual ==
    TotalsComputed =>
        /\ ComputedTotals = ProductTotals(rows)
        /\ \A o \in OtherEngineTotals : o = ComputedTotals

\* C8 amended: each engine gives one total per product, a whole number of
\* cents at most half a cent from the sum of quantity * price of the
\* product's rows; the two engines give the same total for every product
\* whose sum is not exactly half a cent, and totals at most one cent apart
\* otherwise; on the example the totals are A 50.00, B 5.00.
C8_ProductTotalsAgree ==
    TotalsComputed =>
        /\ {r.product : r \in ComputedTotals} = ProductsOf(rows)
        /\ \A r1, r2 \in ComputedTotals : r1.product = r2.product => r1 = r2
        /\ \A r \in ComputedTotals :
              LET x == ProductRevenueSum(rows, r.product)
              IN  /\ r.total_revenue % 10 = 0
                  /\ Abs(r.total_revenue - x) <= 5
                  /\ \A o \in OtherEngineTotals : \A ro \in o :
                        ro.product = r.product =>
                            /\ Abs(ro.total_revenue - r.total_revenue) <= 10
                            /\ x % 10 # 5 => ro.total_revenue = r.total_revenue
        /\ rows = ExampleRows =>
              ComputedTotals = {[product |-> "A", total_revenue |-> 50000],
                                [product |-> "B", total_revenue |-> 5000]}

\* A total of exactly half a cent (1.005) that came out as 1.00, next to a
\* total off the half cent.
C8_Witness ==
    /\ script = 2 /\ pc = "done"
    /\ Len(rows) = 2
    /\ rows[1].product = "A" /\ rows[1].quantity = 1 /\ rows[1].price = 1005
    /\ rows[2].product = "B" /\ rows[2].quantity = 2 /\ rows[2].price = 1004
    /\ product_revenue = {[product |-> "A", total_revenue |-> 1000],
                          [product |-> "B", total_revenue |-> 2010]}

\* ---- C9
\* C9: run_comparison creates the dataset, then times A to completion, then
\* times B to completion, then prints the table; and whenever both
\* implementations returned, the whole table with its ratio line is printed
\* by the time run_comparison has ended.
C9_OrderedAndTablePrinted ==
    /\ calls["A"] > 0 => Printed("Creating dataset")
    /\ calls["B"] > 0 => sample["A"] # <<>>
    /\ Printed("Performance Results") => (sample["A"] # <<>> /\ sample["B"] # <<>>)
    /\ (sample["B"] # <<>> /\ pc \in {"cleanup", "done", "failed"})
          => Printed("ratio")

\* ---- C10
\* C10: in script 04, when the file exists and the three queries succeeded,
\* duckdb_analysis hands its results to the driver and the driver ends
\* without an error message.
C10_AnalysisReturnsToDriver ==
    (script = 4 /\ csvExists /\ q = 3 /\ pc = "done") =>
        /\ returned
        /\ err = "none"
        /\ \A i \in DOMAIN out : out[i] \notin Range(Handler(err))
====
